---- MODULE Spec2Model ----
(***************************************************************************)
(* Afritraffic traffic exchange: the view-validation pipeline and the      *)
(* points balance of the Express/better-sqlite3 server.                    *)
(*                                                                         *)
(* Every route handler of the server is a synchronous function over a      *)
(* synchronous SQLite driver, so one request is one atomic step of the     *)
(* single Node.js process; two requests "in flight together" are two       *)
(* steps at the same clock value.  Each SQL statement auto-commits, so a   *)
(* storage failure between two statements of a handler leaves the first    *)
(* one applied (SpecFault).                                                *)
(*                                                                         *)
(* Time is the server clock in milliseconds since midnight UTC of day 0.   *)
(***************************************************************************)
EXTENDS Integers, Sequences, FiniteSets, TLC

VARIABLES
    users,      \* table users: id -> row (username, email, password,
                \* referral_code, referred_by, points, earnings,
                \* locked_earnings, fraud_flags)
    views,      \* table views: sequence of rows, position = AUTOINCREMENT id
    sites,      \* table sites: sequence of rows, position = AUTOINCREMENT id
    revenue_logs,   \* table adsterra_revenue_logs: sequence of rows
    archived,   \* per user: rows of views credited earlier on day 0 from
                \* addresses and with tokens outside the modelled sets
    surf,       \* the surf page of one browser: its React state, its timers,
                \* its requests in flight, and the history of its requests
    ledger,     \* history of the executions of the balance UPDATE of view-complete
    now         \* server clock, ms

vars == <<users, views, sites, revenue_logs, archived, surf, ledger, now>>

(***************************************************************************)
(* Bounds of the model                                                     *)
(***************************************************************************)
\* rows of views in Spec and SpecFault
MaxViews == 1
\* rows of views in SpecPair
MaxPairViews == 2
\* proxy-tripped requests in a run
MaxFlags == 1
\* accounts created by register in a run
MaxRegistrations == 1
\* rows of sites
MaxSites == 2
\* rows of adsterra_revenue_logs
MaxLogs == 1
\* requests one browser page sends
MaxRequests == 3

(***************************************************************************)
(* Program constants                                                       *)
(***************************************************************************)
DailyCap == 100000
MinDwellSeconds == 20
CountdownStart == 20
CooldownMinutes == 10
ViewPoints == 1
MsPerSecond == 1000
ReferralBonus == 50
DefaultPointsPerView == 1
HoldDays == 15
\* the demo account of the earlier server: points, and earnings in cents
LegacyPoints == 1240
LegacyEarnings == 5230
LegacyLocked == 1545

SecondsPerDay == 24 * 60 * 60
MsPerDay == SecondsPerDay * MsPerSecond
CooldownSeconds == CooldownMinutes * 60

(***************************************************************************)
(* Inputs                                                                  *)
(***************************************************************************)
UserIds == {1, 2}
SiteIds == {1}
Tokens == {"s1", "s2"}

\* user-agent strings, as sequences of characters
UaBrowser == <<"M", "o", "z">>
UaTor == <<"T", "o", "r">>

\* a request's network metadata: req.ip, req.headers['user-agent'], and the
\* names of the other headers present
StartClients ==
    { [ip |-> "ipA", ua |-> UaBrowser, headers |-> {}],
      [ip |-> "ipB", ua |-> UaBrowser, headers |-> {}],
      [ip |-> "ipA", ua |-> UaBrowser, headers |-> {"via"}] }

Clients == StartClients \cup { [ip |-> "ipB", ua |-> UaTor, headers |-> {}] }

\* the client of the requests that carry no login
Anonymous == [ip |-> "ipA", ua |-> UaBrowser, headers |-> {}]

AnonymousToken == "s1"

\* req.session.userId: <<>> when the request carries no login
Auths == {<<>>} \cup { <<u>> : u \in UserIds }

\* the instants at which requests arrive: boot, half a second before and
\* exactly at the dwell threshold after boot, then half a second before the
\* end of a cooldown window opened at the latter
HalfSecond == MsPerSecond \div 2
BootTime == HalfSecond
DwellMs == MinDwellSeconds * MsPerSecond
CooldownMs == CooldownSeconds * MsPerSecond
Instants ==
    { BootTime,
      BootTime + DwellMs - HalfSecond,
      BootTime + DwellMs,
      BootTime + DwellMs + CooldownMs - HalfSecond }

Null == <<>>
NoReason == "NULL"

\* the text values of the n-th account: username, email, and the referral code
\* drawn for it
Username(n) == <<"user", n>>
Email(n) == <<"mail", n>>
ReferralCode(n) == <<"code", n>>

(***************************************************************************)
(* Conversions between the JavaScript clock and SQLite text timestamps     *)
(***************************************************************************)
\* CURRENT_TIMESTAMP / datetime('now'): 'YYYY-MM-DD HH:MM:SS', whole seconds
SqlDatetime(ms) == ms \div MsPerSecond

\* new Date().toISOString().split('T')[0]: the UTC calendar day
IsoDate(ms) == ms \div MsPerDay

\* the 'YYYY-MM-DD' prefix of an SQLite timestamp
SqlDate(sec) == sec \div SecondsPerDay

\* text comparison viewed_at >= today of 'YYYY-MM-DD HH:MM:SS' with 'YYYY-MM-DD'
ViewedAtOnOrAfter(viewed_at, today) == SqlDate(viewed_at) >= today

\* new Date(start_time).getTime() of a stored toISOString() value
ParseIso(start_time) == start_time

(***************************************************************************)
(* isProxy                                                                 *)
(***************************************************************************)
proxyHeaders ==
    {"x-forwarded-for", "x-real-ip", "via", "forwarded", "x-forwarded-proto",
     "proxy-connection"}

LowerChar(c) ==
    CASE c = "T" -> "t"
      [] c = "O" -> "o"
      [] c = "R" -> "r"
      [] c = "M" -> "m"
      [] OTHER -> c

ToLowerCase(s) == [i \in 1..Len(s) |-> LowerChar(s[i])]

Includes(s, pat) ==
    \E i \in 1..(Len(s) - Len(pat) + 1) : SubSeq(s, i, i + Len(pat) - 1) = pat

isProxy(c) ==
    \/ c.headers \cap proxyHeaders # {}
    \/ LET ua == ToLowerCase(c.ua)
       IN \/ Includes(ua, <<"p", "r", "o", "x", "y">>)
          \/ Includes(ua, <<"v", "p", "n">>)
          \/ Includes(ua, <<"t", "o", "r">>)

(***************************************************************************)
(* Queries of view-complete                                                *)
(***************************************************************************)
RECURSIVE SumPoints(_, _)
SumPoints(rows, S) ==
    IF S = {} THEN 0
    ELSE LET i == CHOOSE x \in S : TRUE
         IN (IF rows[i].points_earned = Null THEN 0 ELSE rows[i].points_earned[1])
            + SumPoints(rows, S \ {i})

\* SELECT SUM(points_earned) FROM views WHERE viewer_id = ? AND viewed_at >= ?
DailyPoints(u, today) ==
    (IF ViewedAtOnOrAfter(0, today) THEN archived[u] ELSE 0)
    + SumPoints(views, { i \in 1..Len(views) :
                           /\ views[i].viewer_id = u
                           /\ ViewedAtOnOrAfter(views[i].viewed_at, today) })

\* the cap compared with > instead of >=
DailyCapReached_Strict(u, t) == DailyPoints(u, IsoDate(t)) > DailyCap

DailyCapReached(u, t) == DailyPoints(u, IsoDate(t)) >= DailyCap

\* the query without its viewed_at condition
RecentIpView_NoExpiry(ip, t) ==
    \E i \in 1..Len(views) :
        /\ views[i].ip_address = ip
        /\ views[i].is_valid = 1

\* the query without its is_valid = 1 condition
RecentIpView_AnyRow(ip, t) ==
    \E i \in 1..Len(views) :
        /\ views[i].ip_address = ip
        /\ views[i].viewed_at > SqlDatetime(t) - CooldownSeconds

\* SELECT id FROM views WHERE ip_address = ? AND
\*   viewed_at > datetime('now', '-10 minutes') AND is_valid = 1
RecentIpView(ip, t) ==
    \E i \in 1..Len(views) :
        /\ views[i].ip_address = ip
        /\ views[i].viewed_at > SqlDatetime(t) - CooldownSeconds
        /\ views[i].is_valid = 1

\* SELECT * FROM views WHERE session_id = ? AND viewer_id = ?  (.get(): first row)
SessionRows(sid, u) ==
    { i \in 1..Len(views) : views[i].session_id = sid /\ views[i].viewer_id = u }

ViewSession(sid, u) ==
    LET rows == SessionRows(sid, u)
    IN CHOOSE i \in rows : \A j \in rows : i <= j

\* the threshold compared with <= instead of <
DurationTooShort_Inclusive(row, t) ==
    (t - ParseIso(row.start_time)) <= MinDwellSeconds * MsPerSecond

DurationTooShort(row, t) ==
    (t - ParseIso(row.start_time)) < MinDwellSeconds * MsPerSecond

\* the duplicate-session check left out
AlreadyCompleted_Skipped(row) == FALSE

AlreadyCompleted(row) == row.is_valid = 1

(***************************************************************************)
(* Statements of view-complete                                             *)
(***************************************************************************)
\* the counter raised by 2
FlagUser_Twice(u) ==
    [users EXCEPT ![u].fraud_flags = @ + 2]

\* UPDATE users SET fraud_flags = fraud_flags + 1 WHERE id = ?
FlagUser(u) ==
    [users EXCEPT ![u].fraud_flags = @ + 1]

\* the rows of a too-short request also put back to is_valid = 0
MarkTooShort_Invalidate(sid) ==
    [i \in 1..Len(views) |->
        IF views[i].session_id = sid
        THEN [views[i] EXCEPT !.fraud_reason = "Duration too short",
                              !.is_valid = 0]
        ELSE views[i]]

\* UPDATE views SET fraud_reason = "Duration too short" WHERE session_id = ?
MarkTooShort(sid) ==
    [i \in 1..Len(views) |->
        IF views[i].session_id = sid
        THEN [views[i] EXCEPT !.fraud_reason = "Duration too short"]
        ELSE views[i]]

\* UPDATE views SET points_earned = ?, is_valid = 1, viewed_at = CURRENT_TIMESTAMP
\*   WHERE session_id = ?
MarkValid(sid, points, t) ==
    [i \in 1..Len(views) |->
        IF views[i].session_id = sid
        THEN [views[i] EXCEPT !.points_earned = <<points>>,
                              !.is_valid = 1,
                              !.viewed_at = SqlDatetime(t)]
        ELSE views[i]]

\* the award added to the earnings column
CreditUser_AsEarnings(u, points) ==
    [users EXCEPT ![u].earnings = @ + points]

\* UPDATE users SET points = points + ?, last_earning_at = ... WHERE id = ?
CreditUser(u, points) ==
    [users EXCEPT ![u].points = @ + points]

\* what one execution of that UPDATE was for: the caller, the token, the row the
\* SELECT of the request resolved, the amount, and the request's address and time
LedgerEntry(u, sid, c, points, t) ==
    [user |-> u, session_id |-> sid, view |-> ViewSession(sid, u),
     amount |-> points, ip |-> c.ip, at |-> t]

(***************************************************************************)
(* Initial state: users 1 and 2 are registered and logged in; user 1 has   *)
(* been credited DailyCap - 1 view points earlier on day 0; user 2 has     *)
(* listed site 1 at the default rate.                                      *)
(***************************************************************************)
\* bcrypt.hash(password, 10) and bcrypt.compare(password, hash)
Hash(password) == <<"bcrypt">> \o password

Compare(password, hashed) == hashed = Hash(password)

\* a row of table sites (url left out: no handler reads it)
SiteRow(owner, pointsPerView) ==
    [owner_id |-> owner, points_per_view |-> pointsPerView, active |-> 1]

\* the surf page as useState/useRef initialise it (App.tsx 29-50), nothing
\* in flight, no request issued
SurfIdle ==
    [isViewing |-> FALSE, currentSite |-> Null, countdown |-> 0,
     currentSessionId |-> Null, exchangeError |-> Null, viewTimerRef |-> Null,
     startFetches |-> 0, completeFetches |-> 0, restartTimeouts |-> 0,
     stopped |-> FALSE, issued |-> 0]

Init ==
    /\ archived = [u \in UserIds |-> IF u = 1 THEN DailyCap - ViewPoints ELSE 0]
    /\ users = [u \in UserIds |->
                   [username |-> Username(u),
                    email |-> Email(u),
                    referral_code |-> ReferralCode(u),
                    password |-> Hash(<<"pw">>),
                    referred_by |-> Null,
                    points |-> archived[u],
                    earnings |-> 0,
                    locked_earnings |-> 0,
                    fraud_flags |-> 0]]
    /\ views = <<>>
    /\ sites = <<SiteRow(2, DefaultPointsPerView)>>
    /\ revenue_logs = <<>>
    /\ ledger = <<>>
    /\ surf = SurfIdle
    /\ now = BootTime

\* the database file of the earlier version of the server, taken over by this
\* one: GET /api/stats of the earlier version has inserted the demo account
\* (id 1, no email, no password) with 52.30 available and 15.45 locked;
\* account 2 has registered with this server and listed site 1
InitLegacy ==
    /\ archived = [u \in UserIds |-> 0]
    /\ users = [u \in UserIds |->
                   [username |-> Username(u),
                    email |-> IF u = 1 THEN Null ELSE Email(u),
                    password |-> IF u = 1 THEN Null ELSE Hash(<<"pw">>),
                    referral_code |-> ReferralCode(u),
                    referred_by |-> Null,
                    points |-> IF u = 1 THEN LegacyPoints ELSE 0,
                    earnings |-> IF u = 1 THEN LegacyEarnings ELSE 0,
                    locked_earnings |-> IF u = 1 THEN LegacyLocked ELSE 0,
                    fraud_flags |-> 0]]
    /\ views = <<>>
    /\ sites = <<SiteRow(2, DefaultPointsPerView)>>
    /\ revenue_logs = <<>>
    /\ ledger = <<>>
    /\ surf = SurfIdle
    /\ now = BootTime

(***************************************************************************)
(* POST /api/view-start                                                    *)
(***************************************************************************)
\* view-start refusing a user whose daily total is at the cap
StartResponse_CapChecked(auth) ==
    IF auth = <<>> THEN "not_authenticated"
    ELSE IF DailyCapReached(auth[1], now) THEN "daily_cap_reached"
    ELSE "started"

StartResponse(auth) ==
    IF auth = <<>> THEN "not_authenticated" ELSE "started"

ViewStart(auth, siteId, sid, c) ==
    IF StartResponse(auth) # "started"
    THEN UNCHANGED vars
    ELSE /\ views' = Append(views,
                [viewer_id |-> auth[1],
                 site_id |-> siteId,
                 session_id |-> sid,
                 start_time |-> now,
                 ip_address |-> c.ip,
                 user_agent |-> c.ua,
                 is_valid |-> 0,
                 points_earned |-> Null,
                 fraud_reason |-> NoReason,
                 viewed_at |-> SqlDatetime(now)])
         /\ UNCHANGED <<users, sites, revenue_logs, archived, surf, ledger, now>>

(***************************************************************************)
(* POST /api/view-complete                                                 *)
(***************************************************************************)
RECURSIVE SumFlags(_)
SumFlags(S) ==
    IF S = {} THEN 0
    ELSE LET u == CHOOSE x \in S : TRUE
         IN users[u].fraud_flags + SumFlags(S \ {u})

FlagsRaised == SumFlags(UserIds)

\* the IP-cooldown check run before the daily-cap check
Response_CooldownFirst(auth, sid, c) ==
    IF auth = <<>> THEN "not_authenticated"
    ELSE IF isProxy(c) THEN "proxy_detected"
    ELSE IF RecentIpView(c.ip, now) THEN "ip_cooldown_active"
    ELSE IF DailyCapReached(auth[1], now) THEN "daily_cap_reached"
    ELSE IF SessionRows(sid, auth[1]) = {} THEN "invalid_session"
    ELSE IF DurationTooShort(views[ViewSession(sid, auth[1])], now)
         THEN "duration_too_short"
    ELSE IF AlreadyCompleted(views[ViewSession(sid, auth[1])])
         THEN "session_already_completed"
    ELSE "ok"

\* the response of the handler to a request arriving in the current state
Response(auth, sid, c) ==
    IF auth = <<>> THEN "not_authenticated"
    ELSE IF isProxy(c) THEN "proxy_detected"
    ELSE IF DailyCapReached(auth[1], now) THEN "daily_cap_reached"
    ELSE IF RecentIpView(c.ip, now) THEN "ip_cooldown_active"
    ELSE IF SessionRows(sid, auth[1]) = {} THEN "invalid_session"
    ELSE IF DurationTooShort(views[ViewSession(sid, auth[1])], now)
         THEN "duration_too_short"
    ELSE IF AlreadyCompleted(views[ViewSession(sid, auth[1])])
         THEN "session_already_completed"
    ELSE "ok"

\* the tables as the handler leaves them on its way to response r
\* the counter also raised on a daily-cap rejection
UsersAfter_FlagOnCap(r, auth) ==
    CASE r \in {"proxy_detected", "daily_cap_reached"} -> FlagUser(auth[1])
      [] r = "ok" -> CreditUser(auth[1], ViewPoints)
      [] OTHER -> users

UsersAfter(r, auth) ==
    CASE r = "proxy_detected" -> FlagUser(auth[1])
      [] r = "ok" -> CreditUser(auth[1], ViewPoints)
      [] OTHER -> users

\* the fraud_reason also written on an IP-cooldown rejection
ViewsAfter_MarkOnCooldown(r, sid) ==
    CASE r \in {"duration_too_short", "ip_cooldown_active"} -> MarkTooShort(sid)
      [] r = "ok" -> MarkValid(sid, ViewPoints, now)
      [] OTHER -> views

ViewsAfter(r, sid) ==
    CASE r = "duration_too_short" -> MarkTooShort(sid)
      [] r = "ok" -> MarkValid(sid, ViewPoints, now)
      [] OTHER -> views

LedgerAfter(r, auth, sid, c) ==
    IF r = "ok"
    THEN Append(ledger, LedgerEntry(auth[1], sid, c, ViewPoints, now))
    ELSE ledger

ViewComplete(auth, sid, c) ==
    LET r == Response(auth, sid, c) IN
    /\ r = "proxy_detected" => FlagsRaised < MaxFlags
    /\ views' = ViewsAfter(r, sid)
    /\ users' = UsersAfter(r, auth)
    /\ ledger' = LedgerAfter(r, auth, sid, c)
    /\ UNCHANGED <<sites, revenue_logs, archived, surf, now>>

\* req.body of view-complete: { siteId, sessionId }, the claimed site absent
\* (<<>>) or given
CompleteBodies ==
    { [siteId |-> site, sessionId |-> sid] :
        site \in {Null, <<1>>, <<2>>}, sid \in Tokens }

\* the handler refusing a request whose siteId is not the site of the session
ResponseTo_SiteChecked(auth, body, c) ==
    LET r == Response(auth, body.sessionId, c) IN
    IF /\ r \in {"duration_too_short", "session_already_completed", "ok"}
       /\ body.siteId # <<views[ViewSession(body.sessionId, auth[1])].site_id>>
    THEN "invalid_session"
    ELSE r

\* const { siteId, sessionId } = req.body: siteId is read and not used
ResponseTo(auth, body, c) == Response(auth, body.sessionId, c)

\* the handler applied to a request with its whole body
ViewCompleteRequest(auth, body, c) ==
    LET r == ResponseTo(auth, body, c) IN
    /\ r = "proxy_detected" => FlagsRaised < MaxFlags
    /\ views' = ViewsAfter(r, body.sessionId)
    /\ users' = UsersAfter(r, auth)
    /\ ledger' = LedgerAfter(r, auth, body.sessionId, c)
    /\ UNCHANGED <<sites, revenue_logs, archived, surf, now>>

\* the same request when the process dies, or the second UPDATE throws
\* ('Database error'), after the first UPDATE has committed
ViewCompleteFault(auth, sid, c) ==
    /\ Response(auth, sid, c) = "ok"
    /\ views' = MarkValid(sid, ViewPoints, now)
    /\ UNCHANGED <<users, sites, revenue_logs, archived, surf, ledger, now>>

(***************************************************************************)
(* POST /api/register                                                      *)
(***************************************************************************)
\* INTEGER PRIMARY KEY AUTOINCREMENT of table users (no row is ever deleted)
NextUserId == Cardinality(DOMAIN users) + 1

\* the accounts created by register so far
NewUsers == DOMAIN users \ UserIds

\* req.body of a registration: a new username and email with no referral
\* code, with the code of account 1, with a code no account has, or with the
\* code the handler may generate for the new account; the
\* bodies with one field absent; and the bodies that repeat the username, the
\* email, or both, of the account registered last
RegisterBody(username, email, password, referralCode) ==
    [username |-> username, email |-> email, password |-> password,
     referralCode |-> referralCode]

RegisterBodies ==
    LET name == Username(NextUserId)
        mail == Email(NextUserId)
        lastName == Username(NextUserId - 1)
        lastMail == Email(NextUserId - 1)
        code == ReferralCode(1)
    IN { RegisterBody(name, mail, <<"pw">>, r) :
            r \in {Null, code, ReferralCode(0), ReferralCode(NextUserId)} }
       \cup { RegisterBody(Null, mail, <<"pw">>, code),
              RegisterBody(name, Null, <<"pw">>, code),
              RegisterBody(name, mail, Null, code),
              RegisterBody(lastName, lastMail, <<"pw">>, code),
              RegisterBody(lastName, mail, <<"pw">>, code),
              RegisterBody(name, lastMail, <<"pw">>, code) }

\* Math.random().toString(36).substring(2, 8).toUpperCase(): a code already
\* in the table, or one that is not
NewReferralCodes == {ReferralCode(1), ReferralCode(NextUserId)}

\* SELECT id FROM users WHERE referral_code = ?   (when a code was given)
Referrer(referralCode) ==
    LET found == { i \in DOMAIN users : users[i].referral_code = referralCode }
    IN IF referralCode = Null \/ found = {}
       THEN Null
       ELSE <<CHOOSE i \in found : TRUE>>

\* the UNIQUE constraints of username, email and referral_code
UniqueConstraintFailed(body, code) ==
    \E i \in DOMAIN users :
        \/ users[i].username = body.username
        \/ users[i].email = body.email
        \/ users[i].referral_code = code

RegisterResponse(body, code) ==
    IF body.username = Null \/ body.email = Null \/ body.password = Null
    THEN "missing_fields"
    ELSE IF UniqueConstraintFailed(body, code) THEN "already_exists"
    ELSE "registered"

\* the referrer looked up once the new row, with its own code, is in the table
InsertUser_LookupAfterInsert(body, code) ==
    LET referredById == IF body.referralCode = code
                        THEN <<NextUserId>>
                        ELSE Referrer(body.referralCode)
    IN [i \in DOMAIN users \cup {NextUserId} |->
          IF i = NextUserId
          THEN [username |-> body.username,
                email |-> body.email,
                password |-> Hash(body.password),
                referral_code |-> code,
                referred_by |-> referredById,
                points |-> IF referredById # Null THEN ReferralBonus ELSE 0,
                earnings |-> 0,
                locked_earnings |-> 0,
                fraud_flags |-> 0]
          ELSE users[i]]

\* INSERT INTO users (username, email, password, referral_code, referred_by,
\*   points) VALUES (..., referredById ? 50 : 0)
InsertUser(body, code) ==
    LET referredById == Referrer(body.referralCode)
    IN [i \in DOMAIN users \cup {NextUserId} |->
          IF i = NextUserId
          THEN [username |-> body.username,
                email |-> body.email,
                password |-> Hash(body.password),
                referral_code |-> code,
                referred_by |-> referredById,
                points |-> IF referredById # Null THEN ReferralBonus ELSE 0,
                earnings |-> 0,
                locked_earnings |-> 0,
                fraud_flags |-> 0]
          ELSE users[i]]

\* UPDATE users SET points = points + 50 WHERE id = ?
CreditReferrer(table, referredById) ==
    IF referredById = Null
    THEN table
    ELSE [table EXCEPT ![referredById[1]].points = @ + ReferralBonus]

\* the bonus credited to the referrer before the INSERT is attempted
UsersAfterRegister_CreditFirst(body, code) ==
    IF RegisterResponse(body, code) = "missing_fields" THEN users
    ELSE IF RegisterResponse(body, code) = "already_exists"
         THEN CreditReferrer(users, Referrer(body.referralCode))
    ELSE CreditReferrer(InsertUser(body, code), Referrer(body.referralCode))

\* the row inserted and the referrer credited before the fields are checked
UsersAfterRegister_CheckLast(body, code) ==
    IF RegisterResponse(body, code) = "already_exists"
    THEN users
    ELSE CreditReferrer(InsertUser(body, code), Referrer(body.referralCode))

\* table users as the handler leaves it
UsersAfterRegister(body, code) ==
    IF RegisterResponse(body, code) = "registered"
    THEN CreditReferrer(InsertUser(body, code), Referrer(body.referralCode))
    ELSE users

Register(body, code) ==
    /\ RegisterResponse(body, code) = "registered"
          => Cardinality(NewUsers) < MaxRegistrations
    /\ users' = UsersAfterRegister(body, code)
    /\ UNCHANGED <<views, sites, revenue_logs, archived, surf, ledger, now>>

\* the same request when the process dies after the INSERT and before the
\* UPDATE of the referrer
RegisterFault(body, code) ==
    /\ RegisterResponse(body, code) = "registered"
    /\ Referrer(body.referralCode) # Null
    /\ Cardinality(NewUsers) < MaxRegistrations
    /\ users' = InsertUser(body, code)
    /\ UNCHANGED <<views, sites, revenue_logs, archived, surf, ledger, now>>

(***************************************************************************)
(* POST /api/sites                                                         *)
(***************************************************************************)
\* req.body of a listing: url and pointsPerView, each possibly absent (<<>>);
\* a pointsPerView of 0 is falsy
Urls == {Null, <<"u">>}
Rates == {Null, <<0>>, <<5>>}

SiteBodies == { [url |-> url, pointsPerView |-> rate] : url \in Urls, rate \in Rates }

SitesResponse(auth, body) ==
    IF auth = <<>> THEN "not_authenticated"
    ELSE IF body.url = Null \/ body.pointsPerView \in {Null, <<0>>}
         THEN "missing_fields"
    ELSE "listed"

\* INSERT INTO sites (owner_id, url, points_per_view) VALUES (?, ?, ?)
SitesAfter(r, auth, body) ==
    IF r = "listed"
    THEN Append(sites, SiteRow(auth[1], body.pointsPerView[1]))
    ELSE sites

AddSite(auth, body) ==
    LET r == SitesResponse(auth, body) IN
    /\ r = "listed" => Len(sites) < MaxSites
    /\ sites' = SitesAfter(r, auth, body)
    /\ UNCHANGED <<users, views, revenue_logs, archived, surf, ledger, now>>

(***************************************************************************)
(* POST /api/login.  The handler writes no table; the session store is not *)
(* part of the state, every request carries the login it was sent with.    *)
(***************************************************************************)
LoginBodies ==
    { [email |-> email, password |-> password] :
        email \in {Null, Email(1), Email(2), Email(0)},
        password \in {Null, <<"pw">>, <<"no">>} }

LoginResponse(body) ==
    LET found == { i \in DOMAIN users : users[i].email = body.email } IN
    IF body.email = Null \/ body.password = Null THEN "missing_fields"
    ELSE IF found = {} THEN "invalid_credentials"
    ELSE LET user == users[CHOOSE i \in found : TRUE] IN
         IF user.password = Null THEN "login_failed"
         ELSE IF ~Compare(body.password, user.password) THEN "invalid_credentials"
         ELSE "logged_in"

Login(body) ==
    /\ LoginResponse(body) \in
          {"missing_fields", "invalid_credentials", "login_failed", "logged_in"}
    /\ UNCHANGED vars

(***************************************************************************)
(* updateAdsterraRevenue, run at boot and every hour, and                  *)
(* GET /api/adsterra/revenue                                               *)
(***************************************************************************)
\* the outcome of the fetch: no API key, a failed request, or the items of the
\* day's statistics
FetchOutcomes ==
    { [status |-> "no_api_key", items |-> <<>>],
      [status |-> "fetch_failed", items |-> <<>>],
      [status |-> "ok", items |-> <<[revenue |-> 2, impressions |-> 1000]>>] }

RECURSIVE SumField(_, _)
SumField(items, f) ==
    IF items = <<>> THEN 0 ELSE Head(items)[f] + SumField(Tail(items), f)

\* INSERT INTO adsterra_revenue_logs (date, revenue, impressions, cpm);
\* today is read when the job starts, fetched_at when the row is inserted
RevenueLog(started, items) ==
    LET dailyRevenue == SumField(items, "revenue")
        impressions == SumField(items, "impressions")
    IN [date |-> IsoDate(started),
        revenue |-> dailyRevenue,
        impressions |-> impressions,
        cpm |-> IF impressions > 0 THEN (dailyRevenue * 1000) \div impressions ELSE 0,
        fetched_at |-> SqlDatetime(now)]

LogsAfter(started, outcome) ==
    IF outcome.status = "ok"
    THEN Append(revenue_logs, RevenueLog(started, outcome.items))
    ELSE revenue_logs

updateAdsterraRevenue(started, outcome) ==
    /\ started <= now
    /\ outcome.status = "ok" => Len(revenue_logs) < MaxLogs
    /\ revenue_logs' = LogsAfter(started, outcome)
    /\ UNCHANGED <<users, views, sites, archived, surf, ledger, now>>

\* SELECT * FROM adsterra_revenue_logs WHERE date = ? ORDER BY fetched_at DESC
\* LIMIT 1, else the mock or the empty statistics
RevenueResponse(hasKey) ==
    LET todays == { k \in DOMAIN revenue_logs : revenue_logs[k].date = IsoDate(now) } IN
    IF todays # {}
    THEN revenue_logs[CHOOSE k \in todays :
                         \A j \in todays :
                             revenue_logs[j].fetched_at <= revenue_logs[k].fetched_at]
    ELSE IF ~hasKey THEN [mock |-> TRUE] ELSE [mock |-> FALSE]

GetRevenue(hasKey) ==
    /\ DOMAIN RevenueResponse(hasKey) # {}
    /\ UNCHANGED vars

(***************************************************************************)
(* The clock                                                               *)
(***************************************************************************)
Tick(t) ==
    /\ t > now
    /\ now' = t
    /\ UNCHANGED <<users, views, sites, revenue_logs, archived, surf, ledger>>

(***************************************************************************)
(* The surf page (App.tsx).  Each callback runs to completion; an async     *)
(* function runs up to its await and resumes when the response arrives.     *)
(* viewTimerRef holds the running interval with the session its closure     *)
(* captured (a cleared handle is the same as none: clearInterval on it does *)
(* nothing).  startFetches, completeFetches and restartTimeouts count the   *)
(* requests in flight and the pending setTimeout(startExchange, 2000).      *)
(* History: issued counts the requests sent; stopped holds from a           *)
(* stopExchange to the next click on Start.                                 *)
(***************************************************************************)
\* what the browser can receive for a fetch
FetchResults == {"ok", "error", "network_error"}

\* startExchange up to its await: the page shows the site and POSTs
\* /api/view-start
startExchange(page) ==
    [page EXCEPT !.exchangeError = Null,
                 !.isViewing = TRUE,
                 !.currentSite = <<1>>,
                 !.startFetches = @ + 1,
                 !.issued = @ + 1]

\* completeView up to its await: POSTs /api/view-complete
completeView(page) ==
    [page EXCEPT !.completeFetches = @ + 1, !.issued = @ + 1]

\* the Start Surfing button, rendered while not viewing
ClickStart ==
    /\ ~surf.isViewing
    /\ surf.issued < MaxRequests
    /\ surf' = [startExchange(surf) EXCEPT !.stopped = FALSE]
    /\ UNCHANGED <<users, views, sites, revenue_logs, archived, ledger, now>>

\* startExchange after its await: the countdown interval is started with the
\* session of the response, or the page leaves the viewing state
ViewStartResult(result, sid) ==
    /\ surf.startFetches > 0
    /\ surf' = IF result = "ok"
               THEN [surf EXCEPT !.startFetches = @ - 1,
                                 !.currentSessionId = <<sid>>,
                                 !.countdown = CountdownStart,
                                 !.viewTimerRef = <<sid>>]
               ELSE [surf EXCEPT !.startFetches = @ - 1,
                                 !.exchangeError = <<result>>,
                                 !.isViewing = FALSE]
    /\ UNCHANGED <<users, views, sites, revenue_logs, archived, ledger, now>>

\* the interval's callback: setCountdown(prev => ...), which at prev <= 1
\* clears the interval and calls completeView
CountdownTick ==
    /\ surf.viewTimerRef # Null
    /\ surf.countdown <= 1 => surf.issued < MaxRequests
    /\ surf' = IF surf.countdown <= 1
               THEN [completeView(surf) EXCEPT !.viewTimerRef = Null,
                                               !.countdown = 0]
               ELSE [surf EXCEPT !.countdown = @ - 1]
    /\ UNCHANGED <<users, views, sites, revenue_logs, archived, ledger, now>>

\* completeView after its await: on success the next round is scheduled
\* with setTimeout(startExchange, 2000), else the page leaves the viewing state
ViewCompleteResult(result) ==
    /\ surf.completeFetches > 0
    /\ surf' = IF result = "ok"
               THEN [surf EXCEPT !.completeFetches = @ - 1,
                                 !.restartTimeouts = @ + 1]
               ELSE [surf EXCEPT !.completeFetches = @ - 1,
                                 !.exchangeError = <<result>>,
                                 !.isViewing = FALSE]
    /\ UNCHANGED <<users, views, sites, revenue_logs, archived, ledger, now>>

\* the timeout of completeView fires: startExchange is called
RestartTimeout ==
    /\ surf.restartTimeouts > 0
    /\ surf.issued < MaxRequests
    /\ surf' = [startExchange(surf) EXCEPT !.restartTimeouts = @ - 1]
    /\ UNCHANGED <<users, views, sites, revenue_logs, archived, ledger, now>>

\* the STOP button, rendered while viewing
stopExchange ==
    /\ surf.isViewing
    /\ surf' = [surf EXCEPT !.viewTimerRef = Null,
                            !.isViewing = FALSE,
                            !.currentSite = Null,
                            !.stopped = TRUE]
    /\ UNCHANGED <<users, views, sites, revenue_logs, archived, ledger, now>>

(***************************************************************************)
(* Specifications                                                          *)
(***************************************************************************)
\* the view requests of the users in viewers, with tokens, clients and arrival
\* instants drawn from the given sets, and at most maxViews sessions
Traffic(maxViews, viewers, tokens, starters, completers, instants) ==
    \/ \E u \in viewers, siteId \in SiteIds, sid \in tokens, c \in starters :
           Len(views) < maxViews /\ ViewStart(<<u>>, siteId, sid, c)
    \/ \E u \in viewers, sid \in tokens, c \in completers :
           ViewComplete(<<u>>, sid, c)
    \/ \E siteId \in SiteIds : ViewStart(<<>>, siteId, AnonymousToken, Anonymous)
    \/ ViewComplete(<<>>, AnonymousToken, Anonymous)
    \/ \E t \in instants : Tick(t)

Requests(maxViews) ==
    Traffic(maxViews, UserIds, Tokens, StartClients, Clients, Instants)

\* requests that all come from one address, with and without a proxy header,
\* at boot, at the dwell threshold after it, and at the end of the cooldown
HomeClients == { c \in StartClients : c.ip = Anonymous.ip }
HomeInstants == Instants \ {BootTime + DwellMs - HalfSecond}

HomeRequests(maxViews, viewers) ==
    Traffic(maxViews, viewers, Tokens, HomeClients, HomeClients, HomeInstants)

Registers ==
    \E body \in RegisterBodies, code \in NewReferralCodes : Register(body, code)

RegisterFaults ==
    \E body \in RegisterBodies, code \in NewReferralCodes : RegisterFault(body, code)

\* listings by the logged-in users and by a caller without login
AddSites ==
    \E auth \in Auths, body \in SiteBodies : AddSite(auth, body)

\* view-start on the sites listed after boot
ListedStarts(maxViews) ==
    \E u \in UserIds, siteId \in DOMAIN sites \ SiteIds, sid \in Tokens,
       c \in HomeClients :
        Len(views) < maxViews /\ ViewStart(<<u>>, siteId, sid, c)

\* the accounts that hold a login: those registered with this server
Members == DOMAIN users \cap (UserIds \ {1})

\* the lock instant of the demo account's locked earnings (before boot), the
\* holding period, and the instants around its end: boot, an hour before and
\* a minute after the end of the hold
LegacyLockedAt == 0
HoldMs == HoldDays * MsPerDay
\* the longest the fetch of the job takes
MaxFetchMs == 2 * 60 * 60 * MsPerSecond

EarningInstants ==
    { BootTime,
      LegacyLockedAt + HoldMs - 60 * 60 * MsPerSecond,
      LegacyLockedAt + HoldMs + 60 * MsPerSecond }

\* the requests and the hourly job on the database of the earlier server
NextEarnings ==
    \/ Registers
    \/ \E body \in LoginBodies : Login(body)
    \/ \E auth \in {<<>>} \cup { <<u>> : u \in Members }, body \in SiteBodies :
           AddSite(auth, body)
    \/ \E u \in Members, siteId \in DOMAIN sites, c \in {Anonymous} :
           Len(views) < MaxViews /\ ViewStart(<<u>>, siteId, AnonymousToken, c)
    \/ \E u \in Members, c \in {Anonymous} : ViewComplete(<<u>>, AnonymousToken, c)
    \/ \E started \in { t \in EarningInstants : now - t <= MaxFetchMs },
           outcome \in FetchOutcomes :
           updateAdsterraRevenue(started, outcome)
    \/ \E hasKey \in BOOLEAN : GetRevenue(hasKey)
    \/ \E t \in EarningInstants : Tick(t)

\* requests around the end of UTC day 0: at boot, at the dwell threshold,
\* half a second before midnight and at midnight
MidnightInstants ==
    { BootTime, BootTime + DwellMs, MsPerDay - HalfSecond, MsPerDay }

MidnightRequests(maxViews) ==
    Traffic(maxViews, UserIds, Tokens, HomeClients, HomeClients, MidnightInstants)

\* requests from one address at boot, at the dwell threshold, and a tenth of
\* a second after the end of a cooldown window opened at the latter
TenthSecond == MsPerSecond \div 10
ExpiryInstants ==
    { BootTime, BootTime + DwellMs, BootTime + DwellMs + CooldownMs + TenthSecond }

ExpiryRequests(maxViews) ==
    Traffic(maxViews, UserIds, Tokens, HomeClients, HomeClients, ExpiryInstants)

\* view requests from one address, the completions with their whole body
BodyRequests(maxViews) ==
    \/ \E u \in UserIds, siteId \in SiteIds, sid \in Tokens, c \in HomeClients :
           Len(views) < maxViews /\ ViewStart(<<u>>, siteId, sid, c)
    \/ \E u \in UserIds, body \in CompleteBodies, c \in HomeClients :
           ViewCompleteRequest(<<u>>, body, c)
    \/ \E t \in HomeInstants : Tick(t)

Faults ==
    \E u \in UserIds, sid \in Tokens, c \in Clients : ViewCompleteFault(<<u>>, sid, c)

Next == Requests(MaxViews)
NextPair == Requests(MaxPairViews)
NextFault == Requests(MaxViews) \/ Faults
NextHome == HomeRequests(MaxPairViews, UserIds)
NextAccounts == HomeRequests(MaxViews, UserIds) \/ Registers \/ RegisterFaults
NextMidnight == MidnightRequests(MaxPairViews)
NextExpiry == ExpiryRequests(MaxPairViews)
NextSurf ==
    \/ ClickStart
    \/ \E result \in FetchResults, sid \in Tokens : ViewStartResult(result, sid)
    \/ CountdownTick
    \/ \E result \in FetchResults : ViewCompleteResult(result)
    \/ RestartTimeout
    \/ stopExchange
NextBodies == BodyRequests(MaxViews)
NextSites == HomeRequests(MaxViews, UserIds) \/ AddSites \/ ListedStarts(MaxViews)

\* one session at a time
Spec == Init /\ [][Next]_vars
\* two sessions
SpecPair == Init /\ [][NextPair]_vars
\* one session, with storage failures
SpecFault == Init /\ [][NextFault]_vars
\* two sessions, every request from one address
SpecHome == Init /\ [][NextHome]_vars
\* one session from one address and registrations, with storage failures of
\* register
SpecAccounts == Init /\ [][NextAccounts]_vars
\* two sessions from one address, across midnight UTC
SpecMidnight == Init /\ [][NextMidnight]_vars
\* two sessions from one address, until after the end of the cooldown
SpecExpiry == Init /\ [][NextExpiry]_vars
\* one browser page surfing
SpecSurf == Init /\ [][NextSurf]_vars
\* one session from one address, completions with any claimed site
SpecBodies == Init /\ [][NextBodies]_vars
\* one session from one address on any listed site, and listings
SpecSites == Init /\ [][NextSites]_vars
\* every handler and the hourly job, on the database of the earlier server
SpecEarnings == InitLegacy /\ [][NextEarnings]_vars

(***************************************************************************)
(* Vocabulary of the properties                                            *)
(***************************************************************************)
ViewIds == 1..Len(views)
Entries == 1..Len(ledger)

\* the credits applied for row i: executions of the balance UPDATE by requests
\* that resolved row i
CreditsOf(l, i) == { k \in 1..Len(l) : l[k].view = i }

\* the credits applied to user u for token sid
CreditsFor(l, u, sid) ==
    { k \in 1..Len(l) : l[k].user = u /\ l[k].session_id = sid }

\* an authenticated request whose token resolves to a row of the caller
Resolves(auth, sid) == auth # <<>> /\ SessionRows(sid, auth[1]) # {}

Resolved(auth, sid) == views[ViewSession(sid, auth[1])]

\* the step rewrites stored rows: only view-complete does
Rewrites == users' # users \/ (views' # views /\ Len(views') = Len(views))

RECURSIVE SumAmounts(_, _)
SumAmounts(l, S) ==
    IF S = {} THEN 0
    ELSE LET k == CHOOSE x \in S : TRUE
         IN l[k].amount + SumAmounts(l, S \ {k})

\* the view points credited to user u so far
Credited(u) ==
    archived[u] + SumAmounts(ledger, { k \in Entries : ledger[k].user = u })

(***************************************************************************)
(* C1: exactly-once crediting.  Over every sequence of view-start and      *)
(* view-complete requests, a user's points are incremented for a given     *)
(* session at most once (every increment of points is one credit of a      *)
(* view-complete, and no token of a user and no session row has two), and  *)
(* a view-complete on a session that is already valid awards no points.    *)
(***************************************************************************)
C1_ExactlyOnce ==
    /\ \A u \in UserIds : users[u].points = Credited(u)
    /\ \A u \in UserIds, sid \in Tokens :
          Cardinality(CreditsFor(ledger, u, sid)) <= 1
    /\ \A i \in ViewIds : Cardinality(CreditsOf(ledger, i)) <= 1
    /\ \A auth \in Auths, sid \in Tokens, c \in Clients :
          (Resolves(auth, sid) /\ Resolved(auth, sid).is_valid = 1)
          => Response(auth, sid, c) # "ok"

\* a valid, credited session whose replay reaches the duplicate-session check
C1_Witness ==
    \E auth \in Auths, sid \in Tokens, c \in Clients :
        /\ Resolves(auth, sid)
        /\ Resolved(auth, sid).is_valid = 1
        /\ Cardinality(CreditsFor(ledger, auth[1], sid)) = 1
        /\ Response(auth, sid, c) = "session_already_completed"

(***************************************************************************)
(* C2: in every reachable state every session row marked valid has exactly *)
(* one matching credit of its points_earned, a positive amount, to the     *)
(* balance of its viewer, and every credit applied to a user's balance     *)
(* matches exactly one valid session of that user; also when two sessions  *)
(* carry the same session_id.                                              *)
(***************************************************************************)
MatchingCredits(i) ==
    { k \in Entries :
        /\ ledger[k].view = i
        /\ ledger[k].user = views[i].viewer_id
        /\ views[i].points_earned # Null
        /\ ledger[k].amount = views[i].points_earned[1] }

MatchingSessions(k) ==
    { i \in ViewIds : views[i].is_valid = 1 /\ k \in MatchingCredits(i) }

C2_ValidIffCredited ==
    /\ \A i \in ViewIds :
          views[i].is_valid = 1 =>
              /\ views[i].points_earned # Null
              /\ views[i].points_earned[1] > 0
              /\ Cardinality(MatchingCredits(i)) = 1
    /\ \A k \in Entries : Cardinality(MatchingSessions(k)) = 1

(***************************************************************************)
(* C3: the effects of a successful view-complete are all-or-nothing: when  *)
(* the process crashes or the second UPDATE fails after the first UPDATE   *)
(* has run, the stored state is the pre-completion state, so that no       *)
(* reachable state holds a valid session without its matching credit.      *)
(***************************************************************************)
C3_AllOrNothing ==
    [][ /\ (\E u \in UserIds, sid \in Tokens, c \in Clients :
               ViewCompleteFault(<<u>>, sid, c))
           => (views' = views /\ users' = users)
        /\ \A i \in 1..Len(views') :
               views'[i].is_valid = 1 => CreditsOf(ledger', i) # {}
      ]_vars

(***************************************************************************)
(* C4: if a session is completed validly by a request from IP X at time T, *)
(* every other view-complete issued from IP X at a time in [T, T + 10 min) *)
(* after it (also one at the same instant), by any user and for any token, *)
(* is rejected with ip_cooldown_active.  Read with the two checks that     *)
(* come before the cooldown check (proxy, daily cap) not rejecting first.  *)
(***************************************************************************)
\* a valid completion was made from address ip less than 10 minutes before t
InCooldownWindow(ip, t) ==
    \E k \in Entries :
        /\ ledger[k].ip = ip
        /\ ledger[k].at <= t
        /\ t < ledger[k].at + CooldownMs

C4_IpCooldown ==
    \A u \in UserIds, sid \in Tokens, c \in Clients :
        ( /\ InCooldownWindow(c.ip, now)
          /\ ~isProxy(c)
          /\ ~DailyCapReached(u, now) )
        => Response(<<u>>, sid, c) = "ip_cooldown_active"

(***************************************************************************)
(* C5: the IP-cooldown check is atomic with the recording of a valid       *)
(* session: of two view-complete requests from the same IP for two         *)
(* different pending sessions, processed together (at the same instant),   *)
(* at most one is credited.                                                *)
(***************************************************************************)
C5_AtMostOneCredit ==
    \A k1, k2 \in Entries :
        ( /\ k1 # k2
          /\ ledger[k1].ip = ledger[k2].ip
          /\ ledger[k1].view # ledger[k2].view )
        => ledger[k1].at # ledger[k2].at

(***************************************************************************)
(* C6: daily cap.                                                          *)
(***************************************************************************)
\* the view points credited to user u's balance on day d
DayCredited(u, d) ==
    (IF d = 0 THEN archived[u] ELSE 0)
    + SumAmounts(ledger, { k \in Entries :
                             ledger[k].user = u /\ IsoDate(ledger[k].at) = d })

Days == 0..IsoDate(now)

ReachesDwellCheck(u, sid, c) ==
    /\ ~isProxy(c)
    /\ ~DailyCapReached(u, now)
    /\ ~RecentIpView(c.ip, now)
    /\ Resolves(<<u>>, sid)
    /\ Resolved(<<u>>, sid).is_valid = 0

DwellMeasured(u, sid) == now - Resolved(<<u>>, sid).start_time

C7_DwellBoundary ==
    [](\A u \in UserIds, sid \in Tokens, c \in Clients :
          ReachesDwellCheck(u, sid, c) =>
              LET r == Response(<<u>>, sid, c)
                  i == ViewSession(sid, u)
                  after == ViewsAfter(r, sid)[i]
                  balance == UsersAfter(r, <<u>>)[u].points
              IN
              IF DwellMeasured(u, sid) < MinDwellSeconds * MsPerSecond
              THEN /\ r = "duration_too_short"
                   /\ after.is_valid = 0
                   /\ balance = users[u].points
              ELSE /\ r = "ok"
                   /\ after.is_valid = 1
                   /\ balance = users[u].points + ViewPoints)

\* a session rejected half a second early and accepted at exactly 20 seconds
C7_Witness ==
    \E i \in ViewIds, k \in Entries :
        /\ ledger[k].view = i
        /\ views[i].is_valid = 1
        /\ views[i].fraud_reason = "Duration too short"
        /\ ledger[k].at - views[i].start_time = MinDwellSeconds * MsPerSecond

(***************************************************************************)
(* C8: a duration_too_short rejection is terminal: once a view-complete on *)
(* a session has been rejected for short dwell time, no later              *)
(* view-complete with the same token makes the session valid or credits    *)
(* points for it.                                                          *)
(***************************************************************************)
RejectedTooShort(row) ==
    row.is_valid = 0 /\ row.fraud_reason = "Duration too short"

C8_ShortIsTerminal ==
    [][ \A i \in ViewIds :
          RejectedTooShort(views[i]) =>
              /\ views'[i].is_valid = 0
              /\ CreditsOf(ledger', i) = {}
      ]_vars

(***************************************************************************)
(* C9: view-complete runs its checks in the fixed order proxy heuristic,   *)
(* daily cap, IP cooldown, session existence and ownership, minimum dwell, *)
(* replay guard, and short-circuits: whenever several checks would fail,   *)
(* the rejection returned is that of the first failing check in this       *)
(* order, and no side effect of a later check (fraud_reason write, credit) *)
(* occurs.                                                                 *)
(***************************************************************************)
CheckOrder ==
    <<"proxy_detected", "daily_cap_reached", "ip_cooldown_active",
      "invalid_session", "duration_too_short", "session_already_completed">>

\* for each of the six checks, whether it fails, taken alone, for the request
Failures(u, sid, c) ==
    LET rows == SessionRows(sid, u)
        row == views[ViewSession(sid, u)]
    IN << isProxy(c),
          DailyPoints(u, IsoDate(now)) >= DailyCap,
          RecentIpView(c.ip, now),
          rows = {},
          rows # {} /\ now - row.start_time < MinDwellSeconds * MsPerSecond,
          rows # {} /\ row.is_valid = 1 >>

Failing(u, sid, c) == { k \in DOMAIN CheckOrder : Failures(u, sid, c)[k] }

C9_CheckOrder ==
    [](\A u \in UserIds, sid \in Tokens, c \in Clients :
          LET r == Response(<<u>>, sid, c)
              fails == Failures(u, sid, c)
              failing == { k \in DOMAIN fails : fails[k] }
          IN
          IF failing = {}
          THEN r = "ok"
          ELSE LET first == CHOOSE k \in failing : \A j \in failing : k <= j
                   usersAfter == UsersAfter(r, <<u>>)
               IN
               /\ r = CheckOrder[first]
               /\ \A v \in UserIds : usersAfter[v].points = users[v].points
               /\ LedgerAfter(r, <<u>>, sid, c) = ledger
               /\ first # 5 => ViewsAfter(r, sid) = views
               /\ first # 1 => usersAfter = users)

\* a request failing three checks at once, answered by the first of them
C9_Witness ==
    \E u \in UserIds, sid \in Tokens, c \in Clients :
        /\ Failing(u, sid, c) = {2, 3, 4}
        /\ ledger # <<>>
        /\ Response(<<u>>, sid, c) = "daily_cap_reached"

(***************************************************************************)
(* C10: replay guard.  A view-complete on a session whose state is already *)
(* valid or rejected is rejected with session_already_completed and        *)
(* mutates nothing: no session row, no user's points and no fraud-flag     *)
(* counter changes.  Read with the five checks that come before the guard  *)
(* passing.                                                                *)
(***************************************************************************)
ReachesReplayGuard(u, sid, c) ==
    /\ ~isProxy(c)
    /\ ~DailyCapReached(u, now)
    /\ ~RecentIpView(c.ip, now)
    /\ Resolves(<<u>>, sid)
    /\ DwellMeasured(u, sid) >= MinDwellSeconds * MsPerSecond

C10_ReplayGuard ==
    [][ Rewrites =>
        \A u \in UserIds, sid \in Tokens, c \in Clients :
          ( /\ ReachesReplayGuard(u, sid, c)
            /\ \/ Resolved(<<u>>, sid).is_valid = 1
               \/ RejectedTooShort(Resolved(<<u>>, sid))
            /\ ViewComplete(<<u>>, sid, c) )
          => /\ Response(<<u>>, sid, c) = "session_already_completed"
             /\ UNCHANGED <<users, views, ledger>>
      ]_vars

(***************************************************************************)
(* C11: session ownership.  A view-complete whose token does not resolve   *)
(* to a session owned by the calling user (unknown token, or the token of  *)
(* a session started by another user) is rejected with invalid_session     *)
(* when the proxy, daily-cap and IP-cooldown checks pass, is credited to   *)
(* no one and changes no session row; and no view-complete of a user       *)
(* changes a session row of another user.                                  *)
(***************************************************************************)
C11_SessionOwnership ==
    \A u \in UserIds, sid \in Tokens, c \in Clients :
        LET r == Response(<<u>>, sid, c)
            after == ViewsAfter(r, sid)
        IN
        /\ ( /\ ~isProxy(c)
             /\ ~DailyCapReached(u, now)
             /\ ~RecentIpView(c.ip, now)
             /\ ~Resolves(<<u>>, sid) )
           => /\ r = "invalid_session"
              /\ after = views
              /\ UsersAfter(r, <<u>>) = users
              /\ LedgerAfter(r, <<u>>, sid, c) = ledger
        /\ \A i \in ViewIds : views[i].viewer_id # u => after[i] = views[i]

(***************************************************************************)
(* Vocabulary of the referral properties                                   *)
(***************************************************************************)
\* the accounts registered with the referral code of account u
Referred(u) == { v \in DOMAIN users : users[v].referred_by = <<u>> }

\* the bonus account u holds for its own registration
OwnBonus(u) == IF users[u].referred_by # Null THEN ReferralBonus ELSE 0

\* the view points credited to account u so far
ViewCredits(u) ==
    IF u \in UserIds
    THEN Credited(u)
    ELSE SumAmounts(ledger, { k \in Entries : ledger[k].user = u })

(***************************************************************************)
(* C12: referral bonus exactly once.  A registration with a valid referral *)
(* code leaves exactly 50 points credited to the new user and exactly 50   *)
(* points credited to the referrer, also when the registration crashes     *)
(* between the two credits and is then retried: in no reachable state does *)
(* a new user hold the bonus while the referrer does not.                  *)
(***************************************************************************)
C12_BonusExactlyOnce ==
    \A n \in NewUsers :
        users[n].referred_by # Null =>
            LET r == users[n].referred_by[1] IN
            /\ users[n].points = ReferralBonus + ViewCredits(n)
            /\ users[r].points =
                   OwnBonus(r) + ReferralBonus * Cardinality(Referred(r))
                   + ViewCredits(r)

(***************************************************************************)
(* C13: referral bonus at most once.  Over every sequence of register      *)
(* requests, repeated requests with a username or email already taken      *)
(* included, a referrer's points are incremented by the 50-point bonus at  *)
(* most once per referred user in the users table: a request that creates  *)
(* no account credits no one, every step that adds the bonus to an         *)
(* existing account creates exactly one account referred by it, and the    *)
(* bonuses a referrer holds never exceed 50 per account it referred.       *)
(***************************************************************************)
\* the points account r holds as a referrer
ReferrerBonuses(r) == users[r].points - OwnBonus(r) - ViewCredits(r)

C13_BonusAtMostOnce ==
    /\ [](/\ \A r \in DOMAIN users :
                /\ ReferrerBonuses(r) >= 0
                /\ ReferrerBonuses(r) <= ReferralBonus * Cardinality(Referred(r))
          /\ \A body \in RegisterBodies, code \in NewReferralCodes :
                LET after == UsersAfterRegister(body, code) IN
                IF RegisterResponse(body, code) = "registered"
                THEN \A r \in DOMAIN users :
                        after[r].points =
                            users[r].points +
                            (IF Referrer(body.referralCode) = <<r>>
                             THEN ReferralBonus ELSE 0)
                ELSE after = users)
    /\ [][ \A r \in DOMAIN users :
              users'[r].points = users[r].points + ReferralBonus =>
                  \E n \in DOMAIN users' :
                      /\ DOMAIN users' = DOMAIN users \cup {n}
                      /\ n \notin DOMAIN users
                      /\ users'[n].referred_by = <<r>>
         ]_vars

\* a referred account exists, its referrer holds one bonus for it, and the
\* same registration sent again is refused
C13_Witness ==
    \E n \in NewUsers, body \in RegisterBodies, code \in NewReferralCodes :
        /\ users[n].referred_by # Null
        /\ ReferrerBonuses(users[n].referred_by[1]) = ReferralBonus
        /\ body.username = users[n].username
        /\ body.email = users[n].email
        /\ body.referralCode # Null
        /\ RegisterResponse(body, code) = "already_exists"

(***************************************************************************)
(* C14: the balance is a consistent projection.  In every reachable state  *)
(* a user's points equal 50 if the user registered with a valid referral   *)
(* code (else 0), plus 50 for each user registered with this user as       *)
(* referrer, plus the sum of points_earned over this user's valid          *)
(* sessions.                                                               *)
(***************************************************************************)
\* the sum of points_earned over the valid sessions of account u, those
\* completed before boot included
ValidSessionPoints(u) ==
    (IF u \in UserIds THEN archived[u] ELSE 0)
    + SumPoints(views, { i \in ViewIds :
                           views[i].viewer_id = u /\ views[i].is_valid = 1 })

C14_BalanceProjection ==
    \A u \in DOMAIN users :
        users[u].points =
            OwnBonus(u) + ReferralBonus * Cardinality(Referred(u))
            + ValidSessionPoints(u)

(***************************************************************************)
(* C15: when the proxy/VPN heuristic trips on a view-complete, the         *)
(* caller's fraud-flag counter is incremented by exactly 1, the request is *)
(* rejected with proxy_detected, and nothing else changes: the targeted    *)
(* session stays pending, no points are credited, and the request does not *)
(* occupy the IP-cooldown window or the daily cap.                         *)
(***************************************************************************)
FlagRaised == \E u \in DOMAIN users : users'[u].fraud_flags # users[u].fraud_flags

C15_ProxyTrip ==
    /\ [](\A u \in UserIds, sid \in Tokens, c \in Clients :
            isProxy(c) =>
                LET r == Response(<<u>>, sid, c)
                    after == UsersAfter(r, <<u>>)
                IN
                /\ r = "proxy_detected"
                /\ after[u].fraud_flags = users[u].fraud_flags + 1
                /\ after[u].points = users[u].points
                /\ \A v \in DOMAIN users \ {u} : after[v] = users[v]
                /\ ViewsAfter(r, sid) = views
                /\ LedgerAfter(r, <<u>>, sid, c) = ledger)
    /\ [][ FlagRaised =>
             /\ views' = views
             /\ ledger' = ledger
             /\ \A u \in UserIds :
                   /\ users'[u].points = users[u].points
                   /\ DailyPoints(u, IsoDate(now))' = DailyPoints(u, IsoDate(now))
             /\ \A c \in Clients :
                   RecentIpView(c.ip, now)' = RecentIpView(c.ip, now)
         ]_vars

\* a user flagged by the proxy check whose pending session is still accepted
\* from a clean client
C15_Witness ==
    \E u \in UserIds, sid \in Tokens, c \in Clients :
        /\ users[u].fraud_flags = 1
        /\ ~isProxy(c)
        /\ Resolves(<<u>>, sid)
        /\ Resolved(<<u>>, sid).is_valid = 0
        /\ Response(<<u>>, sid, c) = "ok"

(***************************************************************************)
(* C16: a view-complete rejected by the proxy, daily-cap, IP-cooldown or   *)
(* session-ownership check leaves the targeted session unchanged in state  *)
(* pending (it writes no session row), and a later view-complete with the  *)
(* same token by its owner, issued when all checks pass, is accepted and   *)
(* credited.                                                               *)
(***************************************************************************)
EarlyRejections ==
    {"proxy_detected", "daily_cap_reached", "ip_cooldown_active", "invalid_session"}

C16_RejectedStaysPending ==
    /\ [](\A u \in UserIds, sid \in Tokens, c \in Clients :
            LET r == Response(<<u>>, sid, c)
                after == ViewsAfter(r, sid)
            IN
            /\ r \in EarlyRejections => after = views
            /\ ( /\ Resolves(<<u>>, sid)
                 /\ Resolved(<<u>>, sid).is_valid = 0
                 /\ Failing(u, sid, c) = {} )
               => /\ r = "ok"
                  /\ after[ViewSession(sid, u)].is_valid = 1
                  /\ UsersAfter(r, <<u>>)[u].points = users[u].points + ViewPoints)
    /\ [][ FlagRaised =>
             \A i \in ViewIds : views'[i] = views[i] ]_vars

\* a session whose owner was turned away by the proxy check and was credited
\* for it by a later request
C16_Witness ==
    \E u \in UserIds, k \in Entries :
        /\ users[u].fraud_flags > 0
        /\ ledger[k].user = u
        /\ views[ledger[k].view].is_valid = 1
        /\ views[ledger[k].view].fraud_reason = NoReason

(***************************************************************************)
(* C17: the fraud-flag counter of a user changes only by a proxy-tripped   *)
(* view-complete of that user: rejections for daily cap, IP cooldown,      *)
(* invalid session, short duration and replay, successful completions,     *)
(* view-start and register leave every user's fraud_flags unchanged, and   *)
(* the counter never decreases.                                            *)
(***************************************************************************)
SameFlags(table) ==
    \A v \in DOMAIN users : table[v].fraud_flags = users[v].fraud_flags

C17_FlagsOnlyByProxy ==
    /\ [](/\ \A u \in UserIds, sid \in Tokens, c \in Clients :
                LET r == Response(<<u>>, sid, c)
                    after == UsersAfter(r, <<u>>)
                IN
                IF r = "proxy_detected"
                THEN /\ isProxy(c)
                     /\ after[u].fraud_flags = users[u].fraud_flags + 1
                     /\ \A v \in DOMAIN users \ {u} :
                           after[v].fraud_flags = users[v].fraud_flags
                ELSE SameFlags(after)
          /\ \A body \in RegisterBodies, code \in NewReferralCodes :
                SameFlags(UsersAfterRegister(body, code)))
    /\ [][ /\ DOMAIN users \subseteq DOMAIN users'
           /\ \A u \in DOMAIN users :
                 /\ users'[u].fraud_flags >= users[u].fraud_flags
                 /\ users'[u].fraud_flags # users[u].fraud_flags =>
                       \E sid \in Tokens, c \in Clients :
                           /\ isProxy(c)
                           /\ ViewComplete(<<u>>, sid, c)
         ]_vars

\* after a proxy trip, a successful completion, a daily-cap rejection and a
\* registration, only the tripping user carries a flag
C17_Witness ==
    \E u \in UserIds :
        /\ users[u].fraud_flags = 1
        /\ \A v \in DOMAIN users \ {u} : users[v].fraud_flags = 0
        /\ NewUsers # {}
        /\ \E k \in Entries : ledger[k].user = u
        /\ DailyCapReached(u, now)

(***************************************************************************)
(* C18: view-start by an authenticated user runs no fraud check: it        *)
(* creates a new pending session (is_valid = 0, no points_earned, start    *)
(* timestamp = now, IP and user-agent of the start request) regardless of  *)
(* proxy headers, of the user's daily total and of any active IP cooldown, *)
(* and changes no user's points and no existing session.                   *)
(***************************************************************************)
C18_StartUnchecked ==
    /\ [](\A u \in UserIds : StartResponse(<<u>>) = "started")
    /\ [][ Len(views') # Len(views) =>
             /\ Len(views') = Len(views) + 1
             /\ SubSeq(views', 1, Len(views)) = views
             /\ users' = users
             /\ ledger' = ledger
             /\ \E u \in UserIds, siteId \in SiteIds, sid \in Tokens,
                   c \in StartClients :
                   LET row == views'[Len(views')] IN
                   /\ ViewStart(<<u>>, siteId, sid, c)
                   /\ row.viewer_id = u
                   /\ row.site_id = siteId
                   /\ row.session_id = sid
                   /\ row.is_valid = 0
                   /\ row.points_earned = Null
                   /\ row.fraud_reason = NoReason
                   /\ row.start_time = now
                   /\ row.ip_address = c.ip
                   /\ row.user_agent = c.ua
         ]_vars

\* a session started by a user whose daily total is at the cap, from an
\* address inside the cooldown window of that user's last completion
C18_Witness ==
    \E i, j \in ViewIds, k \in Entries :
        /\ ledger[k].view = i
        /\ views[i].is_valid = 1
        /\ views[j].is_valid = 0
        /\ views[j].viewer_id = views[i].viewer_id
        /\ views[j].ip_address = views[i].ip_address
        /\ views[j].start_time >= ledger[k].at
        /\ views[j].start_time < ledger[k].at + CooldownMs
        /\ DayCredited(views[i].viewer_id, IsoDate(views[j].start_time)) >= DailyCap

(***************************************************************************)
(* C19: session tokens are unique.  Every view-start returns a token       *)
(* different from the token of every session already stored, so in every   *)
(* reachable state no two session rows share a session_id, and completing  *)
(* one session never changes the state or the points_earned of another.    *)
(***************************************************************************)
C19_TokensUnique ==
    /\ \A i, j \in ViewIds :
          i # j => views[i].session_id # views[j].session_id
    /\ \A u \in UserIds, sid \in Tokens, c \in Clients :
          Resolves(<<u>>, sid) =>
              LET after == ViewsAfter(Response(<<u>>, sid, c), sid) IN
              \A i \in ViewIds \ {ViewSession(sid, u)} :
                  /\ after[i].is_valid = views[i].is_valid
                  /\ after[i].points_earned = views[i].points_earned

(***************************************************************************)
(* C20: the session lifecycle is monotonic: session rows are never         *)
(* deleted, a session's state is changed only by view-complete, and once a *)
(* session is valid it stays valid with the same points_earned, viewer,    *)
(* site and start timestamp after every later operation.                   *)
(***************************************************************************)
C20_LifecycleMonotonic ==
    [][ /\ Len(views') >= Len(views)
        /\ \A i \in ViewIds :
              /\ views'[i].is_valid # views[i].is_valid =>
                    views' = ViewsAfter("ok", views[i].session_id)
              /\ views[i].is_valid = 1 =>
                    /\ views'[i].is_valid = 1
                    /\ views'[i].points_earned = views[i].points_earned
                    /\ views'[i].viewer_id = views[i].viewer_id
                    /\ views'[i].site_id = views[i].site_id
                    /\ views'[i].start_time = views[i].start_time
      ]_vars

\* a valid session rewritten by the completion of another session, still
\* valid and with the points it was credited for
C20_Witness ==
    \E i \in ViewIds, k \in Entries :
        /\ ledger[k].view = i
        /\ views[i].is_valid = 1
        /\ views[i].points_earned = <<ledger[k].amount>>
        /\ views[i].viewed_at > SqlDatetime(ledger[k].at)

(***************************************************************************)
(* C21: a session that is pending (or was rejected) occupies no rate-limit *)
(* resource however long it stays so: it never causes an                   *)
(* ip_cooldown_active or daily_cap_reached rejection of any view-complete, *)
(* contributes 0 to its viewer's daily total, and never changes its        *)
(* viewer's points.  Every cooldown rejection is caused by a valid row of  *)
(* the address inside the window, every cap rejection by the points of     *)
(* valid rows alone, and a step after which no new row is valid changes no *)
(* user's points.                                                          *)
(***************************************************************************)
Pending(i) == views[i].is_valid = 0

\* the daily total of user u counted over the valid rows only
DailyPointsOfValid(u, today) ==
    (IF ViewedAtOnOrAfter(0, today) THEN archived[u] ELSE 0)
    + SumPoints(views, { i \in ViewIds :
                           /\ ~Pending(i)
                           /\ views[i].viewer_id = u
                           /\ ViewedAtOnOrAfter(views[i].viewed_at, today) })

C21_PendingHoldsNothing ==
    /\ [](/\ \A i \in ViewIds : Pending(i) => views[i].points_earned = Null
          /\ \A u \in UserIds :
                DailyPoints(u, IsoDate(now)) = DailyPointsOfValid(u, IsoDate(now))
          /\ \A u \in UserIds, sid \in Tokens, c \in Clients :
                LET r == Response(<<u>>, sid, c) IN
                /\ r = "ip_cooldown_active" =>
                      \E i \in ViewIds :
                          /\ ~Pending(i)
                          /\ views[i].ip_address = c.ip
                          /\ views[i].viewed_at > SqlDatetime(now) - CooldownSeconds
                /\ r = "daily_cap_reached" =>
                      DailyPointsOfValid(u, IsoDate(now)) >= DailyCap)
    /\ [][ (\A i \in 1..Len(views') :
               views'[i].is_valid = 1 => (i \in ViewIds /\ ~Pending(i)))
           => \A u \in UserIds : users'[u].points = users[u].points
         ]_vars

\* a session still pending, with a short-dwell rejection on record, whose
\* viewer was credited for a later session from the same address while the
\* pending row's timestamp lay inside the cooldown window
C21_Witness ==
    \E i, j \in ViewIds, k \in Entries :
        /\ Pending(i)
        /\ views[i].fraud_reason = "Duration too short"
        /\ ledger[k].view = j
        /\ views[j].viewer_id = views[i].viewer_id
        /\ views[j].ip_address = views[i].ip_address
        /\ ledger[k].at >= views[i].start_time
        /\ views[i].viewed_at > SqlDatetime(ledger[k].at) - CooldownSeconds

(***************************************************************************)
(* C22: the points awarded by a successful view-complete equal the payout  *)
(* rate (points_per_view) of the session's site, which is 1 only when the  *)
(* site uses the default rate; the same amount is stored as the session's  *)
(* points_earned and added to the viewer's balance.                        *)
(***************************************************************************)
PayoutRate(i) == sites[views[i].site_id].points_per_view

C22_AwardIsSiteRate ==
    /\ \A k \in Entries :
          /\ ledger[k].amount = PayoutRate(ledger[k].view)
          /\ views[ledger[k].view].points_earned = <<ledger[k].amount>>
    /\ \A u \in UserIds : users[u].points = Credited(u)

(***************************************************************************)
(* C23: two-phase earnings.  An earnings entry locked at time T with the   *)
(* 15-day hold is not counted in the user's available earnings at any time *)
(* before T + 15 days, and is counted as available after the first unlock  *)
(* sweep that runs at or after T + 15 days; the transition happens through *)
(* elapsed time and the periodic sweep, without any user action.  The      *)
(* entry is the demo account's locked amount, the sweep the hourly job, a  *)
(* run of which is on record as a row of adsterra_revenue_logs.            *)
(***************************************************************************)
\* the hourly job has completed a run at or after instant t
SweptSince(t) ==
    \E k \in DOMAIN revenue_logs :
        revenue_logs[k].fetched_at >= SqlDatetime(t)

C23_TwoPhaseEarnings ==
    /\ now < LegacyLockedAt + HoldMs =>
          /\ users[1].earnings = LegacyEarnings
          /\ users[1].locked_earnings = LegacyLocked
    /\ SweptSince(LegacyLockedAt + HoldMs) =>
          /\ users[1].earnings = LegacyEarnings + LegacyLocked
          /\ users[1].locked_earnings = 0

(***************************************************************************)
(* C24: no request handler moves value between locked and available        *)
(* earnings: register, login, view-start, view-complete, sites and revenue *)
(* operations leave every user's earnings and locked_earnings unchanged in *)
(* every reachable state (an account created by register starts with 0 of  *)
(* each).                                                                  *)
(***************************************************************************)
SameEarnings(table) ==
    \A v \in DOMAIN users :
        /\ table[v].earnings = users[v].earnings
        /\ table[v].locked_earnings = users[v].locked_earnings

C24_HandlersKeepEarnings ==
    /\ [](/\ \A u \in UserIds, sid \in Tokens, c \in Clients :
                SameEarnings(UsersAfter(Response(<<u>>, sid, c), <<u>>))
          /\ \A body \in RegisterBodies, code \in NewReferralCodes :
                LET after == UsersAfterRegister(body, code) IN
                /\ SameEarnings(after)
                /\ \A n \in DOMAIN after \ DOMAIN users :
                      after[n].earnings = 0 /\ after[n].locked_earnings = 0)
    /\ [][ SameEarnings(users') ]_vars

\* the demo account still holds its available and locked amounts after it
\* was credited a referral bonus, account 2 was credited a view, a site was
\* listed and the hourly job logged a day
C24_Witness ==
    /\ users[1].points = LegacyPoints + ReferralBonus
    /\ users[1].earnings = LegacyEarnings
    /\ users[1].locked_earnings = LegacyLocked
    /\ \E k \in Entries : ledger[k].user = 2
    /\ Len(sites) > 1
    /\ revenue_logs # <<>>

(***************************************************************************)
(* C25: the daily cap counts only sessions completed on the current UTC    *)
(* calendar day: the total the cap check computes for a user is the points *)
(* credited to that user for completions of the current day, so that a     *)
(* user whose credited total reached the cap on day D is no longer         *)
(* rejected by the daily-cap check on the first view-complete after UTC    *)
(* midnight starting day D+1, and a session started on day D but completed *)
(* on day D+1 counts toward day D+1 only.                                  *)
(***************************************************************************)
\* the instant row i turned valid: the first accepted completion of its token
\* after the row was inserted
ValidatedAt(i) ==
    LET ks == { k \in Entries :
                  /\ ledger[k].session_id = views[i].session_id
                  /\ ledger[k].at >= views[i].start_time }
    IN ledger[CHOOSE k \in ks : \A j \in ks : k <= j].at

C25_CapCountsToday ==
    /\ \A i \in ViewIds :
          views[i].is_valid = 1 =>
              SqlDate(views[i].viewed_at) = IsoDate(ValidatedAt(i))
    /\ \A u \in UserIds, sid \in Tokens, c \in Clients :
          ( /\ \E d \in Days \ {IsoDate(now)} : DayCredited(u, d) >= DailyCap
            /\ DayCredited(u, IsoDate(now)) < DailyCap )
          => Response(<<u>>, sid, c) # "daily_cap_reached"

(***************************************************************************)
(* C26: the IP cooldown expires.  When more than 10 minutes have passed    *)
(* since the last valid completion recorded for IP X, a view-complete from *)
(* IP X is not rejected by the IP-cooldown check, so an otherwise          *)
(* admissible completion from that IP (clean client, user below the cap,   *)
(* pending session of the caller, dwell of 20 s or more) is accepted and   *)
(* credited.                                                               *)
(***************************************************************************)
\* the instant of the completion that stamped valid row i
StampedAt(i) ==
    LET ks == { k \in Entries :
                  /\ ledger[k].session_id = views[i].session_id
                  /\ ledger[k].at >= views[i].start_time }
    IN ledger[CHOOSE k \in ks : \A j \in ks : j <= k].at

\* every valid completion recorded for address ip is more than 10 minutes old
CooldownExpired(ip) ==
    \A i \in ViewIds :
        (views[i].is_valid = 1 /\ views[i].ip_address = ip)
        => now - StampedAt(i) > CooldownMs

C26_CooldownExpires ==
    \A u \in UserIds, sid \in Tokens, c \in Clients :
        CooldownExpired(c.ip) =>
            LET r == Response(<<u>>, sid, c) IN
            /\ r # "ip_cooldown_active"
            /\ ( /\ ~isProxy(c)
                 /\ ~DailyCapReached(u, now)
                 /\ Resolves(<<u>>, sid)
                 /\ Resolved(<<u>>, sid).is_valid = 0
                 /\ DwellMeasured(u, sid) >= MinDwellSeconds * MsPerSecond )
               => /\ r = "ok"
                  /\ ViewsAfter(r, sid)[ViewSession(sid, u)].is_valid = 1
                  /\ UsersAfter(r, <<u>>)[u].points = users[u].points + ViewPoints

\* two sessions recorded for one address, the second credited more than 10
\* minutes after the first
C26_Witness ==
    \E k1, k2 \in Entries :
        /\ ledger[k2].at - ledger[k1].at > CooldownMs
        /\ ledger[k1].view # ledger[k2].view
        /\ ledger[k1].ip = ledger[k2].ip
        /\ views[ledger[k1].view].ip_address = ledger[k1].ip
        /\ views[ledger[k2].view].ip_address = ledger[k1].ip
        /\ views[ledger[k2].view].is_valid = 1

(***************************************************************************)
(* C27: the outcome of view-complete (accept or the rejection reason) and  *)
(* all its effects are determined by the authenticated user, the session   *)
(* token, the request's IP and headers, the server clock and the stored    *)
(* state: two requests that differ only in the siteId produce the same     *)
(* outcome and the same resulting state, i.e. the claimed site is never    *)
(* compared with the session's site.                                       *)
(***************************************************************************)
C27_ClaimedSiteIgnored ==
    \A u \in UserIds, c \in Clients, b1, b2 \in CompleteBodies :
        b1.sessionId = b2.sessionId =>
            LET r1 == ResponseTo(<<u>>, b1, c)
                r2 == ResponseTo(<<u>>, b2, c)
            IN /\ r1 = r2
               /\ ViewsAfter(r1, b1.sessionId) = ViewsAfter(r2, b2.sessionId)
               /\ UsersAfter(r1, <<u>>) = UsersAfter(r2, <<u>>)
               /\ LedgerAfter(r1, <<u>>, b1.sessionId, c)
                      = LedgerAfter(r2, <<u>>, b2.sessionId, c)

\* a pending session of site 1 whose completion is accepted when the request
\* names site 2 and when it names no site
C27_Witness ==
    \E u \in UserIds, c \in Clients, b1, b2 \in CompleteBodies :
        /\ b1.sessionId = b2.sessionId
        /\ b1.siteId = <<2>>
        /\ b2.siteId = Null
        /\ Resolves(<<u>>, b1.sessionId)
        /\ Resolved(<<u>>, b1.sessionId).site_id = 1
        /\ ResponseTo(<<u>>, b1, c) = "ok"
        /\ ResponseTo(<<u>>, b2, c) = "ok"

(***************************************************************************)
(* C28: a POST /api/register that fails (a missing field, or a username or *)
(* email already taken) leaves the state unchanged: no user row is created *)
(* and no existing user's points change; in particular the referrer named  *)
(* by the request's referral code receives no bonus.                       *)
(***************************************************************************)
C28_FailedRegisterChangesNothing ==
    \A body \in RegisterBodies, code \in NewReferralCodes :
        RegisterResponse(body, code) \in {"missing_fields", "already_exists"} =>
            LET after == UsersAfterRegister(body, code) IN
            /\ DOMAIN after = DOMAIN users
            /\ \A i \in DOMAIN users : after[i] = users[i]
            /\ Referrer(body.referralCode) # Null =>
                  after[Referrer(body.referralCode)[1]].points
                      = users[Referrer(body.referralCode)[1]].points

\* after a registration, a request without a username and a request that
\* repeats the new account's username and email, both naming a referrer
C28_Witness ==
    /\ NewUsers # {}
    /\ \E missing, taken \in RegisterBodies, code \in NewReferralCodes :
          /\ RegisterResponse(missing, code) = "missing_fields"
          /\ Referrer(missing.referralCode) # Null
          /\ RegisterResponse(taken, code) = "already_exists"
          /\ Referrer(taken.referralCode) # Null
          /\ \E n \in NewUsers : /\ users[n].username = taken.username
                                 /\ users[n].email = taken.email

(***************************************************************************)
(* C29: a POST /api/register with no referral code, or with a code that    *)
(* matches no existing user, succeeds with the new user holding 0 points   *)
(* and no referrer, and changes no other user's points; referred_by of any *)
(* user always names a user that was registered earlier, so no user is     *)
(* their own referrer and the referral relation has no cycle.              *)
(***************************************************************************)
\* referred_by of every row of the table names a row with a smaller id
ReferrersAreEarlier(table) ==
    \A i \in DOMAIN table :
        table[i].referred_by # Null =>
            /\ table[i].referred_by[1] \in DOMAIN table
            /\ table[i].referred_by[1] < i

C29_UnreferredAndAcyclic ==
    /\ ReferrersAreEarlier(users)
    /\ \A body \in RegisterBodies, code \in NewReferralCodes :
          RegisterResponse(body, code) = "registered" =>
              LET after == UsersAfterRegister(body, code) IN
              /\ ReferrersAreEarlier(after)
              /\ Referrer(body.referralCode) = Null =>
                    /\ after[NextUserId].points = 0
                    /\ after[NextUserId].referred_by = Null
                    /\ \A i \in DOMAIN users :
                          after[i].points = users[i].points

\* accounts registered without a referrer and with one, and a registration
\* that presents the code its own row is about to receive
C29_Witness ==
    /\ \E n \in NewUsers : users[n].referred_by = Null /\ users[n].points = 0
    /\ \E body \in RegisterBodies, code \in NewReferralCodes :
          /\ RegisterResponse(body, code) = "registered"
          /\ body.referralCode = code
          /\ Referrer(body.referralCode) = Null

(***************************************************************************)
(* C30: in the surf UI, after stopExchange is invoked no further           *)
(* /api/view-start or /api/view-complete request is issued until the user  *)
(* starts the exchange again; this holds for every ordering of the         *)
(* countdown interval, the completion response and the 2-second restart    *)
(* timeout relative to the stop.                                           *)
(***************************************************************************)
C30_StopSilencesThePage ==
    [][(surf.stopped /\ surf'.stopped) => surf'.issued = surf.issued]_vars

====
